---------------------------- MODULE Spec2Model ----------------------------
(* Model of scripts/todo_sniff_integration.py: the SniffTodoWorkflow       *)
(* quality gate.  A TODO is a dict in the list `todos`; the sniff binary   *)
(* is an external process whose exit and stdout are inputs of each call.   *)
EXTENDS Integers, Sequences, FiniteSets, TLC

VARIABLES todos, last, callers, loop

vars == <<todos, last, callers, loop>>

(***************************************************************************)
(* Bounds of the model.                                                    *)
(***************************************************************************)
\* largest critical_issues count the analyzer reports
MaxCritical == 2

(***************************************************************************)
(* Program constants.                                                      *)
(***************************************************************************)
\* todo.get("min_quality_score", 80)
DefaultMinQuality == 80
\* todo.get("max_critical_issues", 0)
DefaultMaxCritical == 0
\* analysis_result.get(<metric>, 0)
DefaultMetric == 0

(***************************************************************************)
(* Values.  An optional dict key is a set: {} when the key is absent,      *)
(* {v} when it is present with value v.                                    *)
(***************************************************************************)
Get(opt, default) == IF opt = {} THEN default ELSE CHOOSE v \in opt : TRUE

Statuses == {"todo", "in-progress", "completed", "needs-revision"}

\* average_quality_score values: at and below the thresholds 0 and 80
QualityVals == {0, DefaultMinQuality - 1, DefaultMinQuality}
CriticalVals == 0..MaxCritical

\* a metric of the parsed report: the key is absent, holds a number, or
\* holds a JSON value that is no number (null, a string, a list)
Metric(vals) ==
    {[k |-> "absent", v |-> 0], [k |-> "bad", v |-> 0]}
        \cup {[k |-> "num", v |-> n] : n \in vals}

\* file_results as display_sniff_issues reads it: the key is absent; or it
\* is a list of per-file dicts the loop renders; or it is a value the loop
\* fails on (null, a list of non-dicts, a quality_score that is no number)
FileResults == {"absent", "list", "bad"}

NoMetric == [k |-> "absent", v |-> 0]
NoFileResults == "absent"

\* what json.loads(result.stdout) yields: a dict without the key "error";
\* a dict with it (the metrics beside it absent, or good enough to pass); or a
\* JSON value that is no dict, for which `"error" in value` is true (a
\* string or list holding "error") or is false or raises
\* total_detections is here what critical_issues is: absent with it, a
\* number with it (every detection critical), no number with it
Parsed ==
    {[json |-> "dict", error |-> FALSE,
      total_detections |-> c, critical_issues |-> c,
      average_quality_score |-> q, file_results |-> f] :
        c \in Metric(CriticalVals), q \in Metric(QualityVals), f \in FileResults}
    \cup
    [json : {"dict"}, error : {TRUE}, total_detections : {NoMetric},
     critical_issues : {NoMetric}, average_quality_score : {NoMetric},
     file_results : FileResults]
    \cup
    [json : {"dict"}, error : {TRUE},
     total_detections : {[k |-> "num", v |-> 0]},
     critical_issues : {[k |-> "num", v |-> 0]},
     average_quality_score : {[k |-> "num", v |-> DefaultMinQuality]},
     file_results : FileResults]
    \cup
    [json : {"nondict"}, error : BOOLEAN, total_detections : {NoMetric},
     critical_issues : {NoMetric}, average_quality_score : {NoMetric},
     file_results : {NoFileResults}]

\* {"error": str(e)}
ErrorDict ==
    [json |-> "dict", error |-> TRUE,
     total_detections |-> NoMetric, critical_issues |-> NoMetric,
     average_quality_score |-> NoMetric, file_results |-> NoFileResults]

\* One run of the sniff binary: the process does not start (OSError), exits
\* non-zero (CalledProcessError), or exits 0 with a stdout that json.loads
\* rejects ("invalid") or parses
NoStdout == [text |-> "none", value |-> ErrorDict]
ProcOutcomes ==
    {[exit |-> "oserror", stdout |-> NoStdout],
     [exit |-> "nonzero", stdout |-> NoStdout],
     [exit |-> "zero", stdout |-> [text |-> "invalid", value |-> ErrorDict]]}
    \cup {[exit |-> "zero", stdout |-> [text |-> "json", value |-> p]] : p \in Parsed}

NoProc == [exit |-> "none", stdout |-> NoStdout]

\* {}
EmptyDict ==
    [json |-> "dict", error |-> FALSE,
     total_detections |-> NoMetric, critical_issues |-> NoMetric,
     average_quality_score |-> NoMetric, file_results |-> NoFileResults]

\* run_sniff_analysis with the failure swallowed: the except branch returns
\* an empty dict instead of {"error": ...}
run_sniff_analysis_swallowed(proc) ==
    IF proc.exit = "oserror"
    THEN [raised |-> TRUE, value |-> ErrorDict]
    ELSE IF proc.exit = "nonzero"
    THEN [raised |-> FALSE, value |-> EmptyDict]
    ELSE IF proc.stdout.text = "invalid"
    THEN [raised |-> TRUE, value |-> ErrorDict]
    ELSE [raised |-> FALSE, value |-> proc.stdout.value]

(***************************************************************************)
(* run_sniff_analysis: subprocess.run(..., check=True) and json.loads      *)
(* inside a try that catches subprocess.CalledProcessError only.           *)
(* Returns [raised, value]: raised = an exception leaves the method.       *)
(***************************************************************************)
run_sniff_analysis(proc) ==
    IF proc.exit = "oserror"
    THEN [raised |-> TRUE, value |-> ErrorDict]
    ELSE IF proc.exit = "nonzero"
    THEN [raised |-> FALSE, value |-> ErrorDict]
    ELSE IF proc.stdout.text = "invalid"
    THEN [raised |-> TRUE, value |-> ErrorDict]
    ELSE [raised |-> FALSE, value |-> proc.stdout.value]

\* verify_quality_gate with todo.get("min_quality_score", 0): an unset
\* minimum lets every quality through
verify_quality_gate_default0(analysis_result, todo) ==
    IF analysis_result.error
    THEN "Error"
    ELSE IF analysis_result.json = "nondict"
    THEN "raised"
    ELSE LET critical_issues == analysis_result.critical_issues
             avg_quality == analysis_result.average_quality_score
             min_quality == Get(todo.min_quality_score, 0)
             max_critical == Get(todo.max_critical_issues, DefaultMaxCritical)
             Val(m) == IF m.k = "absent" THEN DefaultMetric ELSE m.v
         IN  IF critical_issues.k = "bad"
             THEN "raised"
             ELSE IF Val(critical_issues) > max_critical
             THEN "CriticalIssuesExceeded"
             ELSE IF avg_quality.k = "bad"
             THEN "raised"
             ELSE IF Val(avg_quality) < min_quality
             THEN "QualityBelowThreshold"
             ELSE "Passed"

\* verify_quality_gate reading the metrics by subscript: a key missing from
\* the report raises KeyError
verify_quality_gate_strict(analysis_result, todo) ==
    IF analysis_result.error
    THEN "Error"
    ELSE IF analysis_result.json = "nondict"
    THEN "raised"
    ELSE LET critical_issues == analysis_result.critical_issues
             avg_quality == analysis_result.average_quality_score
             min_quality == Get(todo.min_quality_score, DefaultMinQuality)
             max_critical == Get(todo.max_critical_issues, DefaultMaxCritical)
         IN  IF analysis_result.total_detections.k = "absent"
                \/ critical_issues.k \in {"absent", "bad"}
             THEN "raised"
             ELSE IF critical_issues.v > max_critical
             THEN "CriticalIssuesExceeded"
             ELSE IF avg_quality.k \in {"absent", "bad"}
             THEN "raised"
             ELSE IF avg_quality.v < min_quality
             THEN "QualityBelowThreshold"
             ELSE "Passed"

\* verify_quality_gate with the two threshold checks in the other order
verify_quality_gate_swapped(analysis_result, todo) ==
    IF analysis_result.error
    THEN "Error"
    ELSE IF analysis_result.json = "nondict"
    THEN "raised"
    ELSE LET critical_issues == analysis_result.critical_issues
             avg_quality == analysis_result.average_quality_score
             min_quality == Get(todo.min_quality_score, DefaultMinQuality)
             max_critical == Get(todo.max_critical_issues, DefaultMaxCritical)
             Val(m) == IF m.k = "absent" THEN DefaultMetric ELSE m.v
         IN  IF avg_quality.k = "bad"
             THEN "raised"
             ELSE IF Val(avg_quality) < min_quality
             THEN "QualityBelowThreshold"
             ELSE IF critical_issues.k = "bad"
             THEN "raised"
             ELSE IF Val(critical_issues) > max_critical
             THEN "CriticalIssuesExceeded"
             ELSE "Passed"

(***************************************************************************)
(* verify_quality_gate.  The method returns a bool; the verdict names the  *)
(* return statement taken: "Error" (line 36), "CriticalIssuesExceeded"     *)
(* (line 49), "QualityBelowThreshold" (line 53), "Passed" (line 56), or    *)
(* "raised" when a .get on a non-dict or a comparison with a non-number    *)
(* raises.                                                                 *)
(***************************************************************************)
verify_quality_gate(analysis_result, todo) ==
    IF analysis_result.error
    THEN "Error"
    ELSE IF analysis_result.json = "nondict"
    THEN "raised"
    ELSE LET \* line 39; printed by line 55 with no format spec, which no
             \* value makes fail
             total_issues == analysis_result.total_detections
             critical_issues == analysis_result.critical_issues
             avg_quality == analysis_result.average_quality_score
             min_quality == Get(todo.min_quality_score, DefaultMinQuality)
             max_critical == Get(todo.max_critical_issues, DefaultMaxCritical)
             Val(m) == IF m.k = "absent" THEN DefaultMetric ELSE m.v
         IN  IF critical_issues.k = "bad"
             THEN "raised"
             ELSE IF Val(critical_issues) > max_critical
             THEN "CriticalIssuesExceeded"
             ELSE IF avg_quality.k = "bad"
             THEN "raised"
             ELSE IF Val(avg_quality) < min_quality
             THEN "QualityBelowThreshold"
             ELSE "Passed"

(***************************************************************************)
(* display_sniff_issues: prints only; "raised" when the rendering fails.   *)
(***************************************************************************)
display_sniff_issues(analysis_result) ==
    IF analysis_result.json = "nondict" \/ analysis_result.file_results = "bad"
    THEN "raised"
    ELSE "shown"

(***************************************************************************)
(* The registry: the list `todos` of dicts.                                *)
(***************************************************************************)
\* the lookup without the `if not todo` exit: the loop variable of the last
\* iteration stands in for a TODO that was not found
Find_last_iterated(ts, todo_id) ==
    IF \E i \in 1..Len(ts) : ts[i].id = todo_id
    THEN CHOOSE i \in 1..Len(ts) :
            ts[i].id = todo_id /\ \A j \in 1..(i - 1) : ts[j].id # todo_id
    ELSE Len(ts)

\* the loop of lines 91-94: index of the first dict with that id, 0 if none
Find(ts, todo_id) ==
    IF \E i \in 1..Len(ts) : ts[i].id = todo_id
    THEN CHOOSE i \in 1..Len(ts) :
            ts[i].id = todo_id /\ \A j \in 1..(i - 1) : ts[j].id # todo_id
    ELSE 0

TaskIds == {"implement-auth", "update-docs"}
UnknownId == "no-such-todo"

\* the thresholds a TODO is created with: the key unset, or a value
MinQualityOpts == {{}, {0}, {DefaultMinQuality}}
MaxCriticalOpts == {{}, {DefaultMaxCritical}, {1}}

\* the list of lines 131-150: a TODO with files to verify (thresholds as
\* given) and a TODO without files
InitialTodos(minq, maxc) ==
    << [id |-> "implement-auth", content |-> "Implement user authentication system",
        status |-> "todo", priority |-> "high",
        files |-> <<"src/auth.rs", "src/middleware/auth.rs">>,
        min_quality_score |-> minq, max_critical_issues |-> maxc,
        sniff_verified |-> FALSE],
       [id |-> "update-docs", content |-> "Update the documentation",
        status |-> "todo", priority |-> "low",
        files |-> <<>>,
        min_quality_score |-> {}, max_critical_issues |-> {},
        sniff_verified |-> FALSE] >>

\* `last` is what the latest step was: the todo_id asked for, how the call
\* ended ("NotFound" printed, "Returned", or "Raised": an exception left the
\* method), how often it ran the sniff binary and what the binary did, the
\* gate's verdict, what the rendering did, and the status the TODO had.
\* result = "none": no call (the initial state, or the caller's own step).
NoCall ==
    [id |-> "none", result |-> "none", calls |-> 0, proc |-> NoProc,
     verdict |-> "none", display |-> "none", pre_status |-> "none"]

\* `callers` is where each of two callers stands inside a call, for the
\* statement-by-statement view of the method; `loop` is where the driver
\* loop of example_enhanced_workflow stands.  Both stay idle while whole
\* calls are taken as single steps.
Callers == {"A", "B"}
IdleCaller ==
    [pc |-> "idle", i |-> 0, analysis |-> ErrorDict, verdict |-> "none"]
IdleLoop == [pc |-> "idle", k |-> 0, start |-> <<>>]
Idle ==
    /\ callers = [c \in Callers |-> IdleCaller]
    /\ loop = IdleLoop

Init ==
    /\ \E minq \in MinQualityOpts, maxc \in MaxCriticalOpts :
           todos = InitialTodos(minq, maxc)
    /\ last = NoCall
    /\ Idle

(***************************************************************************)
(* complete_todo_with_verification(todo_id, todos), the whole method.      *)
(* `proc` is what the sniff binary does when the method runs it.           *)
(***************************************************************************)
\* lines 96-98: nothing found
CompleteNotFound(todo_id) ==
    /\ Find(todos, todo_id) = 0
    /\ last' = [NoCall EXCEPT !.id = todo_id, !.result = "NotFound"]
    /\ UNCHANGED todos

\* the no-files exit marking the TODO verified like the gated exit does
CompleteNoFiles_verified(todo_id) ==
    LET i == Find(todos, todo_id) IN
    /\ i # 0
    /\ todos[i].files = <<>>
    /\ todos' = [todos EXCEPT ![i].status = "completed",
                              ![i].sniff_verified = TRUE]
    /\ last' = [NoCall EXCEPT !.id = todo_id, !.result = "Returned",
                              !.pre_status = todos[i].status]

\* lines 101-106: no files to verify
CompleteNoFiles(todo_id) ==
    LET i == Find(todos, todo_id) IN
    /\ i # 0
    /\ todos[i].files = <<>>
    /\ todos' = [todos EXCEPT ![i].status = "completed"]
    /\ last' = [NoCall EXCEPT !.id = todo_id, !.result = "Returned",
                              !.pre_status = todos[i].status]

\* the write of lines 113-122 storing the thresholds it gated with on the
\* TODO (setdefault in place of get)
Gated_normalised(todo, verdict, display) ==
    LET t == [todo EXCEPT
                !.min_quality_score = {Get(@, DefaultMinQuality)},
                !.max_critical_issues = {Get(@, DefaultMaxCritical)}]
    IN  IF verdict = "Passed"
        THEN [t EXCEPT !.status = "completed", !.sniff_verified = TRUE]
        ELSE IF verdict = "raised" \/ display = "raised"
        THEN t
        ELSE [t EXCEPT !.status = "needs-revision"]

\* the write of lines 113-122 with the flag cleared on a failed gate
Gated_clearing(todo, verdict, display) ==
    IF verdict = "Passed"
    THEN [todo EXCEPT !.status = "completed", !.sniff_verified = TRUE]
    ELSE IF verdict = "raised" \/ display = "raised"
    THEN todo
    ELSE [todo EXCEPT !.status = "needs-revision", !.sniff_verified = FALSE]

\* the write of lines 113-122 with a memo: a TODO already marked verified
\* keeps the result of its earlier report
Gated_memoized(todo, verdict, display) ==
    IF todo.sniff_verified \/ verdict = "raised"
    THEN todo
    ELSE IF verdict = "Passed"
    THEN [todo EXCEPT !.status = "completed", !.sniff_verified = TRUE]
    ELSE IF display = "raised"
    THEN todo
    ELSE [todo EXCEPT !.status = "needs-revision"]

\* the dict after lines 113-122, given the verdict and the rendering: an
\* exception in the gate or in the rendering leaves the method before the
\* status is written
Gated(todo, verdict, display) ==
    IF verdict = "Passed"
    THEN [todo EXCEPT !.status = "completed", !.sniff_verified = TRUE]
    ELSE IF verdict = "raised" \/ display = "raised"
    THEN todo
    ELSE [todo EXCEPT !.status = "needs-revision"]

\* line 120: the rendering runs on a failed gate only
Displayed(verdict, analysis_result) ==
    IF verdict \in {"raised", "Passed"}
    THEN "none"
    ELSE display_sniff_issues(analysis_result)

\* line 110: the method runs the sniff binary once
AnalyzerCalls == 1

\* lines 108-124: run sniff, check the gate, write the status
CompleteVerify(todo_id) ==
    LET i == Find(todos, todo_id) IN
    /\ i # 0
    /\ todos[i].files # <<>>
    /\ \E proc \in ProcOutcomes :
       LET analysis == run_sniff_analysis(proc)
           verdict == IF analysis.raised THEN "none"
                      ELSE verify_quality_gate(analysis.value, todos[i])
           display == IF analysis.raised THEN "none"
                      ELSE Displayed(verdict, analysis.value)
           raised == analysis.raised \/ verdict = "raised" \/ display = "raised"
       IN  /\ todos' = IF analysis.raised THEN todos
                       ELSE [todos EXCEPT ![i] = Gated(todos[i], verdict, display)]
           /\ last' = [id |-> todo_id,
                       result |-> IF raised THEN "Raised" ELSE "Returned",
                       calls |-> AnalyzerCalls, proc |-> proc,
                       verdict |-> verdict, display |-> display,
                       pre_status |-> todos[i].status]

complete_todo_with_verification(todo_id) ==
    \/ CompleteNotFound(todo_id)
    \/ CompleteNoFiles(todo_id)
    \/ CompleteVerify(todo_id)

\* lines 156-158: the caller starts a TODO
StartTodo(i) ==
    /\ todos[i].status = "todo"
    /\ todos' = [todos EXCEPT ![i].status = "in-progress"]
    /\ last' = NoCall

\* a caller makes one whole call (one of its three paths), or starts a TODO
Next ==
    \/ \E todo_id \in TaskIds \cup {UnknownId} :
           CompleteNotFound(todo_id) /\ UNCHANGED <<callers, loop>>
    \/ \E todo_id \in TaskIds \cup {UnknownId} :
           CompleteNoFiles(todo_id) /\ UNCHANGED <<callers, loop>>
    \/ \E todo_id \in TaskIds \cup {UnknownId} :
           CompleteVerify(todo_id) /\ UNCHANGED <<callers, loop>>
    \/ \E i \in 1..Len(todos) :
           StartTodo(i) /\ UNCHANGED <<callers, loop>>

Spec == Init /\ [][Next]_vars

(***************************************************************************)
(* verify_quality_gate on its own: a caller hands it a report dict and a    *)
(* TODO that has files.  total_detections varies here on its own.          *)
(***************************************************************************)
GateReports ==
    [json : {"dict"}, error : {FALSE},
     total_detections : Metric({0}),
     critical_issues : Metric(CriticalVals),
     average_quality_score : Metric(QualityVals),
     file_results : FileResults]
    \cup {ErrorDict}

\* lines 33-56, one call: nothing but the returned verdict
EvaluateGate(i, analysis_result) ==
    /\ todos[i].files # <<>>
    /\ last' = [NoCall EXCEPT
                  !.id = todos[i].id,
                  !.result = "Evaluated",
                  !.proc = [exit |-> "zero",
                            stdout |-> [text |-> "json", value |-> analysis_result]],
                  !.verdict = verify_quality_gate(analysis_result, todos[i]),
                  !.pre_status = todos[i].status]
    /\ UNCHANGED todos

NextGate ==
    \E i \in 1..Len(todos), analysis_result \in GateReports :
        EvaluateGate(i, analysis_result) /\ UNCHANGED <<callers, loop>>

SpecGate == Init /\ [][NextGate]_vars

(***************************************************************************)
(* complete_todo_with_verification statement by statement, for two callers *)
(* that share `todos`.  Nothing in the method locks the list or the dict:  *)
(* between two statements of one caller the other caller may run, and an   *)
(* interrupt (KeyboardInterrupt) may end the call.                         *)
(***************************************************************************)
\* what the sniff binary does in this view: it fails to start, exits
\* non-zero, prints no JSON, or prints a dict without critical_issues whose
\* file_results is absent or not renderable
StepOutcomes ==
    {p \in ProcOutcomes :
        (p.exit = "zero" /\ p.stdout.text = "json") =>
            /\ p.stdout.value.json = "dict"
            /\ ~p.stdout.value.error
            /\ p.stdout.value.critical_issues.k = "absent"
            /\ p.stdout.value.file_results \in {"absent", "bad"}}

\* lines 90-98: the lookup; not found: the method returns
Enter(c, todo_id) ==
    /\ callers[c].pc = "idle"
    /\ callers' = [callers EXCEPT ![c] =
                      IF Find(todos, todo_id) = 0
                      THEN [IdleCaller EXCEPT !.pc = "done"]
                      ELSE [IdleCaller EXCEPT !.pc = "files",
                                              !.i = Find(todos, todo_id)]]
    /\ UNCHANGED <<todos, last, loop>>

\* lines 101-106: no files, mark complete and return
CheckFiles(c) ==
    /\ callers[c].pc = "files"
    /\ IF todos[callers[c].i].files = <<>>
       THEN /\ todos' = [todos EXCEPT ![callers[c].i].status = "completed"]
            /\ callers' = [callers EXCEPT ![c].pc = "done"]
       ELSE /\ callers' = [callers EXCEPT ![c].pc = "run"]
            /\ UNCHANGED todos
    /\ UNCHANGED <<last, loop>>

\* line 110: analysis = self.run_sniff_analysis(files)
Analyze(c) ==
    /\ callers[c].pc = "run"
    /\ \E proc \in StepOutcomes :
          LET analysis == run_sniff_analysis(proc) IN
          callers' = [callers EXCEPT ![c] =
                         IF analysis.raised
                         THEN [@ EXCEPT !.pc = "raised"]
                         ELSE [@ EXCEPT !.pc = "gate",
                                        !.analysis = analysis.value]]
    /\ UNCHANGED <<todos, last, loop>>

\* the gate call with todo.setdefault in place of todo.get: the thresholds
\* it gates with are stored on the TODO
GateStep_setdefault(c) ==
    /\ callers[c].pc = "gate"
    /\ LET verdict == verify_quality_gate(callers[c].analysis, todos[callers[c].i])
       IN  callers' = [callers EXCEPT ![c] =
                         [@ EXCEPT !.verdict = verdict,
                                   !.pc = IF verdict = "raised" THEN "raised"
                                          ELSE IF verdict = "Passed" THEN "w115"
                                          ELSE "display"]]
    /\ todos' = [todos EXCEPT
                   ![callers[c].i].min_quality_score = {Get(@, DefaultMinQuality)},
                   ![callers[c].i].max_critical_issues = {Get(@, DefaultMaxCritical)}]
    /\ UNCHANGED <<last, loop>>

\* line 113: if self.verify_quality_gate(analysis, todo)
GateStep(c) ==
    /\ callers[c].pc = "gate"
    /\ LET verdict == verify_quality_gate(callers[c].analysis, todos[callers[c].i])
       IN  callers' = [callers EXCEPT ![c] =
                         [@ EXCEPT !.verdict = verdict,
                                   !.pc = IF verdict = "raised" THEN "raised"
                                          ELSE IF verdict = "Passed" THEN "w115"
                                          ELSE "display"]]
    /\ UNCHANGED <<todos, last, loop>>

\* line 115: todo["status"] = "completed"
Write115(c) ==
    /\ callers[c].pc = "w115"
    /\ todos' = [todos EXCEPT ![callers[c].i].status = "completed"]
    /\ callers' = [callers EXCEPT ![c] = [IdleCaller EXCEPT !.pc = "w116",
                                                            !.i = callers[c].i]]
    /\ UNCHANGED <<last, loop>>

\* line 116: todo["sniff_verified"] = True
Write116(c) ==
    /\ callers[c].pc = "w116"
    /\ todos' = [todos EXCEPT ![callers[c].i].sniff_verified = TRUE]
    /\ callers' = [callers EXCEPT ![c] = [IdleCaller EXCEPT !.pc = "done"]]
    /\ UNCHANGED <<last, loop>>

\* line 120: self.display_sniff_issues(analysis)
DisplayStep(c) ==
    /\ callers[c].pc = "display"
    /\ callers' = [callers EXCEPT ![c] =
                      IF display_sniff_issues(callers[c].analysis) = "raised"
                      THEN [IdleCaller EXCEPT !.pc = "raised"]
                      ELSE [IdleCaller EXCEPT !.pc = "w121", !.i = callers[c].i]]
    /\ UNCHANGED <<todos, last, loop>>

\* line 121: todo["status"] = "needs-revision"
Write121(c) ==
    /\ callers[c].pc = "w121"
    /\ todos' = [todos EXCEPT ![callers[c].i].status = "needs-revision"]
    /\ callers' = [callers EXCEPT ![c] = [IdleCaller EXCEPT !.pc = "done"]]
    /\ UNCHANGED <<last, loop>>

\* an interrupt between two statements ends the call with an exception
Interrupt(c) ==
    /\ callers[c].pc \in {"files", "run", "gate", "w115", "w116", "display", "w121"}
    /\ callers' = [callers EXCEPT ![c] = [IdleCaller EXCEPT !.pc = "raised"]]
    /\ UNCHANGED <<todos, last, loop>>

\* the call is over (returned or raised); the caller may call again
Return(c) ==
    /\ callers[c].pc \in {"done", "raised"}
    /\ callers' = [callers EXCEPT ![c] = IdleCaller]
    /\ UNCHANGED <<todos, last, loop>>

NextSteps ==
    \/ \E c \in Callers, todo_id \in TaskIds \cup {UnknownId} : Enter(c, todo_id)
    \/ \E c \in Callers : CheckFiles(c)
    \/ \E c \in Callers : Analyze(c)
    \/ \E c \in Callers : GateStep(c)
    \/ \E c \in Callers : Write115(c)
    \/ \E c \in Callers : Write116(c)
    \/ \E c \in Callers : DisplayStep(c)
    \/ \E c \in Callers : Write121(c)
    \/ \E c \in Callers : Interrupt(c)
    \/ \E c \in Callers : Return(c)

SpecSteps == Init /\ [][NextSteps]_vars

(***************************************************************************)
(* The driver loop of example_enhanced_workflow, lines 155-166, over a     *)
(* list whose TODOs start in any status.  loop.k is the position of the    *)
(* for loop, loop.start the statuses the TODOs started with.               *)
(***************************************************************************)
InitDriver ==
    /\ \E minq \in MinQualityOpts, maxc \in MaxCriticalOpts,
          s1 \in Statuses, s2 \in Statuses :
          /\ todos = [InitialTodos(minq, maxc) EXCEPT ![1].status = s1,
                                                      ![2].status = s2]
          /\ loop = [pc |-> "test", k |-> 1, start |-> <<s1, s2>>]
    /\ last = NoCall
    /\ callers = [c \in Callers |-> IdleCaller]

\* lines 156-158 with line 164 forgotten: the loop goes on to the next TODO
DriverStart_nogate ==
    /\ loop.pc = "test"
    /\ loop.k <= Len(todos)
    /\ StartTodo(loop.k)
    /\ loop' = [loop EXCEPT !.k = @ + 1]
    /\ UNCHANGED callers

\* lines 156-158: a TODO in status "todo" is started
DriverStart ==
    /\ loop.pc = "test"
    /\ loop.k <= Len(todos)
    /\ StartTodo(loop.k)
    /\ loop' = [loop EXCEPT !.pc = "call"]
    /\ UNCHANGED callers

\* line 156, condition false: the loop goes on to the next TODO
DriverSkip ==
    /\ loop.pc = "test"
    /\ loop.k <= Len(todos)
    /\ todos[loop.k].status # "todo"
    /\ loop' = [loop EXCEPT !.k = @ + 1]
    /\ UNCHANGED <<todos, last, callers>>

\* line 164: the call; an exception of the call ends the loop
DriverCall ==
    /\ loop.pc = "call"
    /\ complete_todo_with_verification(todos[loop.k].id)
    /\ loop' = IF last'.result = "Raised"
               THEN [loop EXCEPT !.pc = "aborted"]
               ELSE [loop EXCEPT !.pc = "test", !.k = @ + 1]
    /\ UNCHANGED callers

\* line 166: the list is exhausted, return todos
DriverFinish ==
    /\ loop.pc = "test"
    /\ loop.k > Len(todos)
    /\ loop' = [loop EXCEPT !.pc = "done"]
    /\ UNCHANGED <<todos, last, callers>>

NextDriver ==
    \/ DriverStart
    \/ DriverSkip
    \/ DriverCall
    \/ DriverFinish

SpecDriver == InitDriver /\ [][NextDriver]_vars

TypeOK ==
    /\ Len(todos) = 2
    /\ \A i \in 1..Len(todos) :
          /\ todos[i].status \in Statuses
          /\ todos[i].sniff_verified \in BOOLEAN
    /\ last.result \in {"none", "NotFound", "Returned", "Raised", "Evaluated"}
    /\ last.calls \in 0..1

(***************************************************************************)
(* Properties.                                                             *)
(***************************************************************************)
KnownId(todo_id) == \E i \in 1..Len(todos) : todos[i].id = todo_id
Idx(todo_id) == CHOOSE i \in 1..Len(todos) : todos[i].id = todo_id

\* the latest step was a call that found its TODO
CalledOnTask == last.result \in {"Returned", "Raised"}
LastTodo == todos[Idx(last.id)]

\* the latest step was a call that ran the sniff binary and got a report
\* back from run_sniff_analysis
GotReport == last.calls = 1 /\ last.verdict # "none"
LastReport == run_sniff_analysis(last.proc).value

\* the gate returned True or False for that report
GateDecided ==
    GotReport /\ last.verdict \in
        {"Passed", "Error", "CriticalIssuesExceeded", "QualityBelowThreshold"}

\* C1: for a found task with non-empty files, a call sets the status to
\* Completed exactly when the gate passed the report of that call, and to
\* NeedsRevision exactly when the gate did not pass it.
C1_GatedCompletion ==
    GateDecided =>
        /\ (LastTodo.status = "completed") <=> (last.verdict = "Passed")
        /\ (LastTodo.status = "needs-revision") <=> (last.verdict # "Passed")

\* The decision order of the design: first match wins.
Reference(errored, critical_issues, average_quality_score,
          min_quality_score, max_critical_issues) ==
    IF errored THEN "Error"
    ELSE IF critical_issues > max_critical_issues THEN "CriticalIssuesExceeded"
    ELSE IF average_quality_score < min_quality_score THEN "QualityBelowThreshold"
    ELSE "Passed"

\* a report of the data model: errored, or a dict with numeric metrics
TypedReport(r) ==
    \/ r.error
    \/ /\ r.json = "dict"
       /\ r.critical_issues.k = "num"
       /\ r.average_quality_score.k = "num"

ThresholdsSet(todo) ==
    todo.min_quality_score # {} /\ todo.max_critical_issues # {}

\* C2: for every report and every threshold pair, verify_quality_gate agrees
\* with the fixed-order, first-match-wins reference: errored, then critical
\* issues above the maximum, then quality below the minimum, else pass.
C2_GateOrder ==
    (GotReport /\ TypedReport(LastReport) /\ ThresholdsSet(LastTodo)) =>
        last.verdict =
            Reference(LastReport.error,
                      LastReport.critical_issues.v,
                      LastReport.average_quality_score.v,
                      Get(LastTodo.min_quality_score, 0),
                      Get(LastTodo.max_critical_issues, 0))

\* a report that fails both checks was reported as CriticalIssuesExceeded
C2_Witness ==
    /\ GotReport /\ TypedReport(LastReport) /\ ThresholdsSet(LastTodo)
    /\ ~LastReport.error
    /\ LastReport.critical_issues.v > Get(LastTodo.max_critical_issues, 0)
    /\ LastReport.average_quality_score.v < Get(LastTodo.min_quality_score, 0)
    /\ last.verdict = "CriticalIssuesExceeded"

\* C3: in every reachable state a task has sniff_verified = true only if its
\* status is Completed, its files are non-empty and the gate passed (the
\* latest gate run on it, when the latest step is one).
C3_VerifiedOnlyIfCompleted ==
    \A i \in 1..Len(todos) :
        todos[i].sniff_verified =>
            /\ todos[i].status = "completed"
            /\ todos[i].files # <<>>
            /\ (GotReport /\ last.id = todos[i].id) => last.verdict = "Passed"

\* the analyzer invocation failed: the process did not start, it exited
\* non-zero, or its output is not a parseable report
InvocationFailed(proc) ==
    \/ proc.exit \in {"oserror", "nonzero"}
    \/ /\ proc.exit = "zero"
       /\ \/ proc.stdout.text = "invalid"
          \/ proc.stdout.value.json = "nondict"

\* C4: a call in which the analyzer invocation fails never sets the task to
\* Completed and never sets sniff_verified to true, whatever the thresholds.
C4_FailClosed ==
    [][ (last'.calls = 1 /\ InvocationFailed(last'.proc)) =>
          \A i \in 1..Len(todos) :
              /\ todos'[i].status = "completed" => todos[i].status = "completed"
              /\ todos'[i].sniff_verified => todos[i].sniff_verified ]_vars

\* the sniff binary exited non-zero for a task gated with min_quality_score
\* = 0, and the task went to NeedsRevision unverified
C4_Witness ==
    /\ last.calls = 1
    /\ last.proc.exit = "nonzero"
    /\ LastTodo.min_quality_score = {0}
    /\ last.pre_status = "in-progress"
    /\ LastTodo.status = "needs-revision"
    /\ ~LastTodo.sniff_verified

\* C5: for a task whose files are empty, the call sets the status to
\* Completed, runs the analyzer zero times, and leaves sniff_verified false.
C5_NoFilesCompletes ==
    (last.result # "none" /\ KnownId(last.id) /\ LastTodo.files = <<>>) =>
        /\ last.result = "Returned"
        /\ LastTodo.status = "completed"
        /\ last.calls = 0
        /\ ~LastTodo.sniff_verified

C5_Witness ==
    /\ last.result = "Returned"
    /\ KnownId(last.id)
    /\ LastTodo.files = <<>>
    /\ last.pre_status = "in-progress"
    /\ LastTodo.status = "completed"

\* C6: a call with a task id that is not in the registry reports NotFound,
\* changes no field of any task and does not run the analyzer.
C6_NotFoundUnchanged ==
    [][ (last'.result # "none" /\ ~KnownId(last'.id)) =>
          /\ last'.result = "NotFound"
          /\ last'.calls = 0
          /\ todos' = todos ]_vars

C6_Witness ==
    /\ last.result = "NotFound"
    /\ last.id = UnknownId
    /\ todos[1].status = "needs-revision"
    /\ todos[2].status = "in-progress"

\* C7: run_sniff_analysis always returns a report and never raises: every
\* failure of the invocation comes back as a report with errored = true.
C7_AnalyzeAlwaysReports ==
    last.calls = 1 =>
        /\ ~run_sniff_analysis(last.proc).raised
        /\ InvocationFailed(last.proc) =>
               run_sniff_analysis(last.proc).value.error

\* C8: every call ends in a defined outcome: NotFound is reported, or the
\* call returns with the task Completed or NeedsRevision.
C8_DefinedOutcome ==
    last.result # "none" =>
        \/ last.result = "NotFound"
        \/ /\ last.result = "Returned"
           /\ LastTodo.status \in {"completed", "needs-revision"}

\* the transitions of the lifecycle, the re-gating of a NeedsRevision task
\* among them
Lifecycle ==
    {<<"todo", "in-progress">>,
     <<"in-progress", "completed">>,
     <<"in-progress", "needs-revision">>,
     <<"needs-revision", "in-progress">>,
     <<"needs-revision", "completed">>}

\* C9: every status change of a task is a transition of the lifecycle; no
\* call moves a task from Todo to Completed or NeedsRevision, or out of
\* Completed.
C9_Lifecycle ==
    [][ \A i \in 1..Len(todos) :
          todos'[i].status # todos[i].status =>
              <<todos[i].status, todos'[i].status>> \in Lifecycle ]_vars

\* the gate passes the report of the latest call
FreshPasses ==
    GotReport /\ verify_quality_gate(LastReport, LastTodo) = "Passed"

GateFailed ==
    GotReport /\ last.verdict \in
        {"Error", "CriticalIssuesExceeded", "QualityBelowThreshold"}

\* C12: reporting has no effect on task state: on a gate failure the task
\* reaches NeedsRevision whatever display_sniff_issues does with the report,
\* also when the rendering fails.
C12_ReportingNoEffect ==
    GateFailed => LastTodo.status = "needs-revision"

\* the same task with the documented defaults written on it
ExplicitDefaults(todo) ==
    [todo EXCEPT !.min_quality_score = IF @ = {} THEN {80} ELSE @,
                 !.max_critical_issues = IF @ = {} THEN {0} ELSE @]

\* C14: a task with min_quality_score unset is gated as with 80 and one with
\* max_critical_issues unset as with 0: for every report the verdict equals
\* the verdict for the same task with the defaults written explicitly.
C14_Defaults ==
    GotReport =>
        last.verdict = verify_quality_gate(LastReport, ExplicitDefaults(LastTodo))

\* both thresholds unset, quality 79 and one critical issue less than two:
\* the gate failed on the default minimum
C14_Witness ==
    /\ GotReport
    /\ LastTodo.min_quality_score = {}
    /\ LastTodo.max_critical_issues = {}
    /\ LastReport.json = "dict" /\ ~LastReport.error
    /\ LastReport.critical_issues = [k |-> "num", v |-> 0]
    /\ LastReport.average_quality_score = [k |-> "num", v |-> 79]
    /\ last.verdict = "QualityBelowThreshold"

\* C16: a call on task id X changes at most the status and sniff_verified of
\* the task with id X; every other task and every other field of X are
\* unchanged, and no task is added or removed.
C16_Frame ==
    [][ last'.result \in {"NotFound", "Returned", "Raised"} =>
          /\ Len(todos') = Len(todos)
          /\ \A i \in 1..Len(todos) :
                \/ todos'[i] = todos[i]
                \/ /\ todos[i].id = last'.id
                   /\ \E st \in Statuses, sv \in BOOLEAN :
                         todos'[i] = [todos[i] EXCEPT !.status = st,
                                                      !.sniff_verified = sv] ]_vars

C16_Witness ==
    /\ last.result = "Returned"
    /\ last.id = "implement-auth"
    /\ last.pre_status = "in-progress"
    /\ todos[1].status = "completed"
    /\ todos[1].sniff_verified
    /\ todos[2].status = "in-progress"

\* the status the call decides from the files, the thresholds and the report
Decision(todo, report) ==
    IF todo.files = <<>> THEN "completed"
    ELSE IF verify_quality_gate(report, todo) = "Passed" THEN "completed"
    ELSE "needs-revision"

\* C17: the status a call leaves depends only on the task's files, its
\* thresholds and the report of that call, not on the status or the flag
\* the task had: whatever the task was before, it ends with the same status.
C17_StatusIndependent ==
    (last.result # "none" /\ KnownId(last.id)
        /\ (LastTodo.files = <<>> \/ GotReport)) =>
        LastTodo.status = Decision(LastTodo, LastReport)

\* C18: sniff_verified is never cleared: once true it stays true through
\* every later step, failed gates and analyzer errors included.
C18_NeverCleared ==
    [][ \A i \in 1..Len(todos) :
          todos[i].sniff_verified => todos'[i].sniff_verified ]_vars

\* a verified task was gated again, the analyzer exited non-zero, and the
\* task is NeedsRevision with the flag still set
C18_Witness ==
    /\ last.calls = 1
    /\ last.proc.exit = "nonzero"
    /\ last.pre_status = "completed"
    /\ LastTodo.status = "needs-revision"
    /\ LastTodo.sniff_verified

\* the latest step was one evaluation of the gate
Evaluated == last.result = "Evaluated"
EvalReport == last.proc.stdout.value

\* a report that is not errored, each metric absent or a number
PartialReport(r) ==
    /\ r.json = "dict" /\ ~r.error
    /\ r.total_detections.k # "bad"
    /\ r.critical_issues.k # "bad"
    /\ r.average_quality_score.k # "bad"

\* the same report with each absent field at its zero value
ZeroOf(m) == IF m.k = "absent" THEN [k |-> "num", v |-> 0] ELSE m
ZeroFilled(r) ==
    [r EXCEPT !.total_detections = ZeroOf(@),
              !.critical_issues = ZeroOf(@),
              !.average_quality_score = ZeroOf(@),
              !.file_results = IF @ = "absent" THEN "list" ELSE @]

\* C15: for a non-errored report with any subset of total_detections,
\* critical_issues, average_quality_score and file_results absent, the gate
\* returns a verdict, the one of the same report with each absent field set to
\* zero; a report without average_quality_score fails when the minimum is > 0.
C15_PartialReports ==
    (Evaluated /\ PartialReport(EvalReport)) =>
        /\ last.verdict # "raised"
        /\ last.verdict = verify_quality_gate(ZeroFilled(EvalReport), LastTodo)
        /\ (EvalReport.average_quality_score.k = "absent"
              /\ Get(LastTodo.min_quality_score, 80) > 0)
           => last.verdict # "Passed"

\* the empty report {} failed the gate of a task with min_quality_score 80
C15_Witness ==
    /\ Evaluated
    /\ EvalReport.total_detections.k = "absent"
    /\ EvalReport.critical_issues.k = "absent"
    /\ EvalReport.average_quality_score.k = "absent"
    /\ EvalReport.file_results = "absent"
    /\ ~EvalReport.error
    /\ LastTodo.min_quality_score = {80}
    /\ last.verdict = "QualityBelowThreshold"

\* C11: status and sniff_verified change as one atomic step: no reachable
\* state, seen by another caller or left by an interrupted call, has a task
\* with files Completed by a passed gate with sniff_verified still false.
C11_AtomicUpdate ==
    \A i \in 1..Len(todos) :
        (todos[i].files # <<>> /\ todos[i].status = "completed") =>
            todos[i].sniff_verified

\* C13: the gate is a pure function: evaluating it changes neither the task
\* nor the report, and its verdict for a report and a task's thresholds is
\* the same whenever it is evaluated, whatever the task's status and flag
\* have become in between.
C13_GatePure ==
    /\ [][ \A c \in Callers :
             (callers[c].pc = "gate" /\ callers'[c].verdict # "none") =>
                 /\ todos' = todos
                 /\ callers'[c].analysis = callers[c].analysis ]_vars
    /\ [](\A c \in Callers :
             callers[c].pc \in {"w115", "display"} =>
                 callers[c].verdict =
                     verify_quality_gate(callers[c].analysis,
                                         todos[callers[c].i]))

\* a caller holds the verdict Passed of its report while the other caller
\* has since moved the same task to NeedsRevision
C13_Witness ==
    /\ callers["A"].pc = "w115"
    /\ callers["A"].verdict = "Passed"
    /\ callers["B"].pc = "done"
    /\ todos[callers["A"].i].status = "needs-revision"

Gated_statuses == {"completed", "needs-revision"}

\* C19: the driver loop handles the tasks one at a time in list order: the
\* tasks behind the loop position are finished with (gated if they started
\* in Todo, untouched otherwise), the task at the position is in progress
\* while its call is due, the tasks ahead are untouched; when the loop
\* finishes no task that started in Todo is left in Todo or InProgress.
C19_DriverOrder ==
    /\ \A j \in 1..Len(todos) :
          /\ (j < loop.k /\ loop.start[j] = "todo") =>
                 todos[j].status \in Gated_statuses
          /\ (j < loop.k /\ loop.start[j] # "todo") =>
                 todos[j].status = loop.start[j]
          /\ (j = loop.k /\ loop.pc = "call") => todos[j].status = "in-progress"
          /\ (j > loop.k \/ (j = loop.k /\ loop.pc = "test")) =>
                 todos[j].status = loop.start[j]
    /\ loop.pc = "done" =>
          \A j \in 1..Len(todos) :
              loop.start[j] = "todo" => todos[j].status \in Gated_statuses

\* the loop finished over two tasks that started in Todo: the first failed
\* its gate, the second had no files
C19_Witness ==
    /\ loop.pc = "done"
    /\ loop.start = <<"todo", "todo">>
    /\ todos[1].status = "needs-revision"
    /\ todos[2].status = "completed"

=============================================================================
